---- MODULE Spec2Model ----
(***************************************************************************)
(* Knowledge-base lifecycle of the AI office assistant:                    *)
(* KnowledgeBaseManager over DocumentProcessor, VectorStoreManager and     *)
(* PersistenceManager (src/src/core/knowledge/), and the AgentEngine facade *)
(* with its OrchestrationManager (src/src/core/agent_system.py,            *)
(* src/src/core/orchestration/).                                           *)
(* Around it: DocumentParser (src/src/core/parser.py), the splitter of the *)
(* older engine (src/src/core/engine.py) and the tools bound to the engine *)
(* (src/src/core/tools/).                                                  *)
(*                                                                         *)
(* A text is [marker, lead, body]: an optional "only images" marker,       *)
(* `lead` whitespace characters, then `body` characters without            *)
(* whitespace.  A chunk is a slice [start, len] of the text of a source.   *)
(* The vector store is the docstore in insertion order.                    *)
(***************************************************************************)
EXTENDS Integers, Sequences, FiniteSets, TLC

\* ---------------------------------------------------------------- bounds
\* most chunks the index holds in the model
MaxChunks == 5
\* most entries of file_names in the model
MaxDocs == 3
\* most failed writes to the storage location in one run
MaxFaults == 1
\* most page-image directories left behind in one run
MaxTmpDirs == 1

\* ------------------------------------------------------ program constants
min_chunk_length == 10
MarkerLen == 59
ShortDocLimit == 2000
LongDocLimit == 10000
DefaultChunkSize == 1500
DefaultOverlap == 300
ShortChunkSize == 800
ShortOverlap == 200
LongChunkSize == 2000
LongOverlap == 400
DefaultK == 8
OcrPrefixLen == 45
EngineDefaultChunkSize == 1000
EngineDefaultOverlap == 200
TinyDocLimit == 200
SmallDocLimit == 500
MinChunkSize == 50
SmallChunkFloor == 200
SmallOverlapCap == 50
MediumChunkSize == 500
MediumOverlap == 100

\* ----------------------------------------------------------------- inputs
Names == {"a", "b"}

Text(m, l, b) == [marker |-> m, lead |-> l, body |-> b]
EmptyText == Text(FALSE, 0, 0)
\* the marker text the extractor gives for an image-only document
ImageOnlyText == Text(TRUE, 0, 0)
\* 2 blanks and 9 characters: 11 characters long, 9 after strip()
PaddedText == Text(FALSE, 2, 9)
\* exactly min_chunk_length characters
TenText == Text(FALSE, 0, 10)
ShortText == Text(FALSE, 0, 1400)
MidText == Text(FALSE, 0, 2600)

Texts == {ImageOnlyText, PaddedText, TenText, ShortText, MidText}

\* what DocumentParser.parse_document returns for the file
ParseError == [error |-> TRUE, text |-> EmptyText]
ParseContent(t) == [error |-> FALSE, text |-> t]
Parses == {ParseError} \cup {ParseContent(t) : t \in Texts}

\* an uploaded file: its name and what parsing its bytes gives
File(n, p) == [name |-> n, parse |-> p]
Files == [name : Names, parse : Parses]

\* the uploads of a run without storage failures: the empty batch, every
\* single file, and the pairs that differ in kind: one name twice (failing
\* then readable, readable twice), two names (two readable texts, one
\* without a chunk, both failing, one failing on either side)
Batches ==
    {<<>>}
    \cup {<<f>> : f \in Files}
    \cup {<<File("a", ParseError), File("a", ParseContent(ShortText))>>,
          <<File("a", ParseContent(ShortText)), File("a", ParseContent(MidText))>>,
          <<File("a", ParseContent(ShortText)), File("b", ParseContent(MidText))>>,
          <<File("a", ParseContent(TenText)), File("b", ParseContent(ShortText))>>,
          <<File("a", ParseError), File("b", ParseContent(ImageOnlyText))>>,
          <<File("a", ParseContent(ShortText)), File("b", ParseError)>>,
          <<File("b", ParseContent(ImageOnlyText)), File("a", ParseContent(MidText))>>}

\* the uploads of a run with storage failures: one readable file, one name
\* twice (failing then readable), two readable files, one failing file
FaultBatches ==
    {<<File("a", ParseContent(ShortText))>>,
     <<File("b", ParseContent(MidText))>>,
     <<File("a", ParseError), File("a", ParseContent(ShortText))>>,
     <<File("a", ParseContent(ShortText)), File("b", ParseContent(MidText))>>,
     <<File("b", ParseError)>>}

\* what can go wrong in one call: the embedding call fails, building the
\* agent in AgentExecutor.build_agent fails, the index write is torn, the
\* metadata write is refused after the index was written, the metadata
\* write is torn
Faults == {"none", "embed", "agent_build", "index_torn", "meta_refused", "meta_torn"}
StorageFaults == {"index_torn", "meta_refused", "meta_torn"}
\* a run whose storage never fails
ServiceFaults == {"none", "embed", "agent_build"}

\* the answer of the model service to one query: it answers or it raises
Services == {"ok", "fail"}
\* the processing modes of OrchestrationManager
Modes == {"agent", "rag"}

\* ---------------------------------------------------------------- helpers
Min(x, y) == IF x < y THEN x ELSE y
Max(x, y) == IF x > y THEN x ELSE y
CeilDiv(x, y) == (x + y - 1) \div y

RECURSIVE SumLen(_)
Range(s) == {s[i] : i \in 1..Len(s)}

\* len(text)
TextLen(t) == (IF t.marker THEN MarkerLen ELSE 0) + t.lead + t.body
\* len(text.strip())
StripLen(t) == (IF t.marker THEN MarkerLen ELSE 0) + t.body

\* -------------------------------------------------------- DocumentParser
\* the extensions of the paths handed to the parser
Extensions == {".pdf", ".PDF", ".docx", ".DocX", ".txt", ".TXT", ".md", ".doc", ""}

\* os.path.splitext(file_path)[1] with its upper-case letters kept
SameCase(ext) == ext

\* str.lower() on an extension
Lower(ext) ==
    CASE ext = ".PDF" -> ".pdf"
      [] ext = ".DocX" -> ".docx"
      [] ext = ".TXT" -> ".txt"
      [] OTHER -> ext

\* what one call of a service or library gives: text, only whitespace, or an
\* exception
Outcomes == {"text", "blank", "raise"}

\* psm_configs
PsmConfigs == <<6, 8, 11, 13>>

\* what surrounds one OCR call: whether pytesseract/PIL and openai could be
\* imported, what the vision model gives, whether the tesseract binary is
\* installed, whether the image opens, what tesseract reads in each mode
OcrEnvs ==
    [ocr_available : BOOLEAN, vision_available : BOOLEAN, vision : Outcomes,
     tesseract : {"ok", "missing"}, image : {"ok", "unreadable"},
     psm : [Range(PsmConfigs) -> Outcomes]]

\* one call made for an image: the vision model, or tesseract in mode psm
VisionCall == [kind |-> "vision", psm |-> 0]
TesseractCall(psm) == [kind |-> "tesseract", psm |-> psm]
\* the empty string
NoText == [kind |-> "none", psm |-> 0]

\* what _extract_text_from_image gives: the text, named by the call that
\* produced it, the calls made in order, and whether an exception left it
Extracted(text, calls, raised) == [text |-> text, calls |-> calls, raised |-> raised]

\* the loop over psm_configs from position i on
RECURSIVE TryPsm(_, _, _)
TryPsm(env, i, calls) ==
    IF i > Len(PsmConfigs) THEN Extracted(NoText, calls, FALSE)
    ELSE LET c == Append(calls, TesseractCall(PsmConfigs[i]))
         IN IF env.psm[PsmConfigs[i]] = "text"
            THEN Extracted(TesseractCall(PsmConfigs[i]), c, FALSE)
            ELSE TryPsm(env, i + 1, c)

\* an extraction that runs tesseract first and the vision model last
ExtractTextFromImage_OcrFirst(env) ==
    LET t == IF ~env.ocr_available \/ env.tesseract = "missing"
                  \/ env.image = "unreadable"
             THEN Extracted(NoText, <<>>, FALSE)
             ELSE TryPsm(env, 1, <<>>)
    IN IF t.text # NoText \/ ~env.vision_available THEN t
       ELSE Extracted(IF env.vision = "text" THEN VisionCall ELSE NoText,
                      Append(t.calls, VisionCall), FALSE)

\* DocumentParser._extract_text_from_image
ExtractTextFromImage(env) ==
    LET v == IF env.vision_available THEN <<VisionCall>> ELSE <<>>
    IN IF env.vision_available /\ env.vision = "text"
       THEN Extracted(VisionCall, v, FALSE)
       ELSE IF ~env.ocr_available THEN Extracted(NoText, v, FALSE)
       ELSE IF env.tesseract = "missing" THEN Extracted(NoText, v, FALSE)
       ELSE IF env.image = "unreadable" THEN Extracted(NoText, v, FALSE)
       ELSE TryPsm(env, 1, v)

\* a page of a PDF: it has text; it has none and renders to an image; it
\* cannot be loaded; it has no text and cannot be rendered or saved
PageKinds == {"text", "image", "unreadable", "unrenderable"}

\* what the parser returns: a dict with the one key `content` or the one key
\* `error`; `raised` would say that an exception left the call instead
ContentResult(content) ==
    [keys |-> {"content"}, content |-> content, error |-> "", raised |-> FALSE]
ErrorResult(reason) ==
    [keys |-> {"error"}, content |-> <<>>, error |-> reason, raised |-> FALSE]

\* a sub-parser ended: its result and whether its temporary directory is
\* still on disk
Parsed(res, temp_dir) == [res |-> res, temp_dir |-> temp_dir]

\* the text of page i, named by what produced it
PageText(i, by) == [page |-> i, by |-> by]

\* the loop of _parse_pdf over the pages from i on, then the cleanup
RECURSIVE ParsePages(_, _, _, _, _)
ParsePages(pages, env, i, text_content, temp_dir) ==
    IF i > Len(pages)
    THEN Parsed(IF text_content = <<>>
                THEN ErrorResult("No readable text found in PDF")
                ELSE ContentResult(text_content), FALSE)
    ELSE IF pages[i] = "unreadable"
         THEN Parsed(ErrorResult("Error parsing PDF"), temp_dir)
    ELSE IF pages[i] = "text"
         THEN ParsePages(pages, env, i + 1,
                         Append(text_content, PageText(i, "text")), temp_dir)
    ELSE IF ~env.ocr_available
         THEN ParsePages(pages, env, i + 1, text_content, temp_dir)
    ELSE IF pages[i] = "unrenderable"
         THEN Parsed(ErrorResult("Error parsing PDF"), TRUE)
    ELSE LET ocr_text == ExtractTextFromImage(env).text
         IN ParsePages(pages, env, i + 1,
                       IF ocr_text # NoText
                       THEN Append(text_content, PageText(i, ocr_text.kind))
                       ELSE text_content,
                       TRUE)

\* DocumentParser._parse_pdf
ParsePdf(doc, env) ==
    IF ~doc.openable THEN Parsed(ErrorResult("Error parsing PDF"), FALSE)
    ELSE ParsePages(doc.pages, env, 1, <<>>, FALSE)

\* DocumentParser._parse_docx: the directory made for the inline shapes is
\* removed before the result is built
ParseDocx(doc, env) ==
    IF ~doc.openable THEN Parsed(ErrorResult("Error parsing DOCX"), FALSE)
    ELSE IF doc.paragraphs = "blank"
         THEN Parsed(ErrorResult("No readable text found in DOCX"), FALSE)
    ELSE Parsed(ContentResult(<<PageText(1, "text")>>), FALSE)

\* DocumentParser._parse_txt: utf-8 first, latin-1 when the bytes are no utf-8
ParseTxt(doc) ==
    IF ~doc.openable THEN Parsed(ErrorResult("Error parsing text file"), FALSE)
    ELSE IF doc.bytes = "utf8_blank"
         THEN Parsed(ErrorResult("Text file is empty"), FALSE)
    ELSE IF doc.bytes = "utf8_text"
         THEN Parsed(ContentResult(<<PageText(1, "text")>>), FALSE)
    ELSE Parsed(ContentResult(<<PageText(1, doc.bytes)>>), FALSE)

\* the documents that can lie at a path
NoDoc == [type |-> "none"]
PdfDocs ==
    {[type |-> "pdf", openable |-> FALSE, pages |-> <<>>]}
    \cup {[type |-> "pdf", openable |-> TRUE, pages |-> ps] :
             ps \in {<<>>} \cup {<<k>> : k \in PageKinds}
                        \cup {<<j, k>> : j \in PageKinds, k \in PageKinds}}
DocxDocs ==
    [type : {"docx"}, openable : BOOLEAN, paragraphs : {"text", "blank"},
     shapes : BOOLEAN]
TxtDocs ==
    [type : {"txt"}, openable : BOOLEAN,
     bytes : {"utf8_text", "utf8_blank", "latin1_text", "latin1_blank"}]

\* a path: its extension, whether a file is there, and what the file holds
Paths ==
    [ext : Extensions, exists : {FALSE}, doc : {NoDoc}]
    \cup [ext : {".pdf", ".PDF"}, exists : {TRUE}, doc : PdfDocs]
    \cup [ext : {".docx", ".DocX"}, exists : {TRUE}, doc : DocxDocs]
    \cup [ext : {".txt", ".TXT"}, exists : {TRUE}, doc : TxtDocs]
    \cup [ext : {".md", ".doc", ""}, exists : {TRUE}, doc : {NoDoc}]

\* the surroundings of a parse: tesseract is installed and reads an image in
\* its first mode or not at all, the vision model answers or gives nothing
ParseEnvs ==
    {env \in OcrEnvs :
        /\ env.tesseract = "ok"
        /\ env.image = "ok"
        /\ env.vision # "raise"
        /\ env.psm[6] # "raise"
        /\ \A p \in {8, 11, 13} : env.psm[p] = "blank"}

\* the dispatch of parse_document on the extension `ext`
Dispatch(ext, path, env) ==
    IF ~path.exists THEN Parsed(ErrorResult("File not found"), FALSE)
    ELSE IF ext = ".pdf" THEN ParsePdf(path.doc, env)
    ELSE IF ext = ".docx" THEN ParseDocx(path.doc, env)
    ELSE IF ext = ".txt" THEN ParseTxt(path.doc)
    ELSE Parsed(ErrorResult("Unsupported file format"), FALSE)

\* a parse_document that compares the extension as it is written
ParseDocument_CaseSensitive(path, env) == Dispatch(SameCase(path.ext), path, env)

\* DocumentParser.parse_document
ParseDocument(path, env) == Dispatch(Lower(path.ext), path, env)

\* ----------------------------------------------------- DocumentProcessor
\* a validation that lets the image-only marker text through
IsValidContent_NoMarkerCheck(t) ==
    /\ TextLen(t) > 0
    /\ ~(StripLen(t) < min_chunk_length)

IsValidContent(t) ==
    /\ TextLen(t) > 0
    /\ ~t.marker
    /\ ~(StripLen(t) < min_chunk_length)

FileFails(f) == f.parse.error \/ ~IsValidContent(f.parse.text)

RECURSIVE ProcessDocs(_)
ProcessDocs(files) ==
    IF files = <<>> THEN <<>>
    ELSE (IF FileFails(Head(files)) THEN <<>>
          ELSE <<[text |-> Head(files).parse.text, source |-> Head(files).name]>>)
         \o ProcessDocs(Tail(files))

RECURSIVE ProcessFailed(_)
ProcessFailed(files) ==
    IF files = <<>> THEN <<>>
    ELSE (IF FileFails(Head(files)) THEN <<Head(files).name>> ELSE <<>>)
         \o ProcessFailed(Tail(files))

ProcessUploadedFiles(files) ==
    [docs |-> ProcessDocs(files), failed |-> ProcessFailed(files)]

SumLen(docs) ==
    IF docs = <<>> THEN 0 ELSE TextLen(Head(docs).text) + SumLen(Tail(docs))

\* avg_doc_length = total_length / len(docs) compared without division
GetTextSplitter(docs) ==
    IF docs = <<>> THEN [chunk_size |-> DefaultChunkSize, overlap |-> DefaultOverlap]
    ELSE IF SumLen(docs) < ShortDocLimit * Len(docs)
         THEN [chunk_size |-> ShortChunkSize, overlap |-> ShortOverlap]
    ELSE IF SumLen(docs) > LongDocLimit * Len(docs)
         THEN [chunk_size |-> LongChunkSize, overlap |-> LongOverlap]
    ELSE [chunk_size |-> DefaultChunkSize, overlap |-> DefaultOverlap]

\* a document handed to the splitter of engine.py: `chars` characters of
\* its own, and the OCR header in front of them, after the text of an earlier
\* page, or not at all
OcrKinds == {"none", "first", "later"}
SplitterLengths ==
    {0, 40, 50, 155, 199, 200, 250, 499, 500, 1999, 2000, 2001, 9999, 10000,
     10001, 30000}
SplitterDocs == [chars : SplitterLengths, ocr : OcrKinds]
SplitterBatches ==
    {<<>>} \cup {<<d>> : d \in SplitterDocs}
           \cup {<<d, e>> : d \in SplitterDocs, e \in SplitterDocs}

\* len(text)
DocLen(d) == d.chars + (IF d.ocr = "none" THEN 0 ELSE OcrPrefixLen)
\* len(actual_text): the header is taken out of a text that starts with it
ActualLen(d) == IF d.ocr = "first" THEN d.chars ELSE DocLen(d)

RECURSIVE SumActual(_)
SumActual(docs) ==
    IF docs = <<>> THEN 0 ELSE ActualLen(Head(docs)) + SumActual(Tail(docs))

\* the same documents as DocumentProcessor sees them
RECURSIVE AsDocs(_)
AsDocs(docs) ==
    IF docs = <<>> THEN <<>>
    ELSE <<[text |-> Text(FALSE, 0, DocLen(Head(docs))), source |-> "a"]>>
         \o AsDocs(Tail(docs))

\* a splitter configuration whose chunk_size is chunk_size / per characters:
\* the chunk size of tiny documents is the average length, a fraction
SplitterConfig(chunk_size, overlap, per) ==
    [chunk_size |-> chunk_size, overlap |-> overlap, per |-> per]

\* a splitter that takes the average length of tiny documents as it is
EngineGetTextSplitter_NoFloor(docs) ==
    LET n == Len(docs)
        total == SumActual(docs)
    IN IF docs = <<>>
       THEN SplitterConfig(EngineDefaultChunkSize, EngineDefaultOverlap, 1)
       ELSE IF total < TinyDocLimit * n THEN SplitterConfig(total, 0, n)
       ELSE IF total < SmallDocLimit * n
            THEN LET chunk_size == Max(SmallChunkFloor, (4 * total) \div (5 * n))
                 IN SplitterConfig(chunk_size, Min(SmallOverlapCap, chunk_size \div 4), 1)
       ELSE IF total < ShortDocLimit * n
            THEN SplitterConfig(MediumChunkSize, MediumOverlap, 1)
       ELSE SplitterConfig(EngineDefaultChunkSize, EngineDefaultOverlap, 1)

\* AgentEngine._get_text_splitter of engine.py; avg_text_length is
\* total / n, int(avg_text_length * 0.8) the floor of 4 total / 5 n
EngineGetTextSplitter(docs) ==
    LET n == Len(docs)
        total == SumActual(docs)
    IN IF docs = <<>>
       THEN SplitterConfig(EngineDefaultChunkSize, EngineDefaultOverlap, 1)
       ELSE IF total < TinyDocLimit * n
            THEN SplitterConfig(Max(total, MinChunkSize * n), 0, n)
       ELSE IF total < SmallDocLimit * n
            THEN LET chunk_size == Max(SmallChunkFloor, (4 * total) \div (5 * n))
                 IN SplitterConfig(chunk_size, Min(SmallOverlapCap, chunk_size \div 4), 1)
       ELSE IF total < ShortDocLimit * n
            THEN SplitterConfig(MediumChunkSize, MediumOverlap, 1)
       ELSE SplitterConfig(EngineDefaultChunkSize, EngineDefaultOverlap, 1)

\* RecursiveCharacterTextSplitter on one text: a text that fits is one chunk,
\* a longer one a window of chunk_size moved by chunk_size - overlap; every
\* chunk is stripped and an empty one dropped
SplitText(t, cfg) ==
    LET L == TextLen(t)
        step == cfg.chunk_size - cfg.overlap
        n == IF L <= cfg.chunk_size THEN 1 ELSE CeilDiv(L - cfg.overlap, step)
        piece(i) ==
            LET st == (i - 1) * step
                en == Min(L, st + cfg.chunk_size)
                from == Max(st, (IF t.marker THEN 0 ELSE t.lead))
            IN [start |-> from, len |-> en - from]
    IN SelectSeq([i \in 1..n |-> piece(i)], LAMBDA p : p.len > 0)

DocChunks(doc, cfg) ==
    LET ps == SplitText(doc.text, cfg)
    IN [i \in 1..Len(ps) |->
          [source |-> doc.source, text |-> doc.text,
           start |-> ps[i].start, len |-> ps[i].len]]

RECURSIVE SplitDocs(_, _)
SplitDocs(docs, cfg) ==
    IF docs = <<>> THEN <<>>
    ELSE DocChunks(Head(docs), cfg) \o SplitDocs(Tail(docs), cfg)

\* a filter that keeps a chunk of exactly min_chunk_length characters
CreateValidChunks_AtLeast(cfg, docs) ==
    SelectSeq(SplitDocs(docs, cfg), LAMBDA c : c.len >= min_chunk_length)

\* the chunks that survive the filter; an empty result is the ValueError
CreateValidChunks(cfg, docs) ==
    SelectSeq(SplitDocs(docs, cfg), LAMBDA c : c.len > min_chunk_length)

RECURSIVE FirstText(_, _)
FirstText(docs, name) ==
    IF Head(docs).source = name THEN Head(docs).text ELSE FirstText(Tail(docs), name)

ExtractRawTexts(files, docs) ==
    LET processed_sources == {d.source : d \in Range(docs)}
    IN [n \in {f.name : f \in Range(files)} \cap processed_sources |->
          FirstText(docs, n)]

\* [file.name for file in uploaded_files if file.name not in failed_files]
RECURSIVE NewFileNames(_, _)
NewFileNames(files, failed) ==
    IF files = <<>> THEN <<>>
    ELSE (IF Head(files).name \in Range(failed) THEN <<>> ELSE <<Head(files).name>>)
         \o NewFileNames(Tail(files), failed)

RECURSIVE AllNames(_)
AllNames(files) ==
    IF files = <<>> THEN <<>> ELSE <<Head(files).name>> \o AllNames(Tail(files))

\* dict.update
DictUpdate(d, e) ==
    [n \in DOMAIN d \cup DOMAIN e |-> IF n \in DOMAIN e THEN e[n] ELSE d[n]]

\* list.remove: the first occurrence
RECURSIVE ListRemove(_, _)
ListRemove(s, x) ==
    IF s = <<>> THEN <<>>
    ELSE IF Head(s) = x THEN Tail(s)
    ELSE <<Head(s)>> \o ListRemove(Tail(s), x)

DictDel(d, k) == [n \in DOMAIN d \ {k} |-> d[n]]
NoTexts == [n \in {} |-> EmptyText]

\* ----------------------------------------------------- VectorStoreManager
NoStore == [exists |-> FALSE, docs |-> <<>>]
Store(chunks) == [exists |-> TRUE, docs |-> chunks]

\* create_vector_store: FAISS.from_documents embeds, then replaces the store;
\* a failing embedding call leaves the old store
CreateVectorStore(vs, chunks, embedOk) ==
    IF chunks = <<>> THEN [vs |-> vs, raised |-> "EmptyDocuments"]
    ELSE IF ~embedOk THEN [vs |-> vs, raised |-> "EmbeddingError"]
    ELSE [vs |-> Store(chunks), raised |-> "none"]

\* an add that puts the chunks embedded so far into the docstore when the
\* embedding call fails
AddDocumentsToStore_Partial(vs, chunks, embedOk) ==
    IF ~vs.exists THEN [vs |-> vs, raised |-> "NoVectorStore"]
    ELSE IF chunks = <<>> THEN [vs |-> vs, raised |-> "none"]
    ELSE IF ~embedOk
         THEN [vs |-> Store(vs.docs \o <<Head(chunks)>>), raised |-> "EmbeddingError"]
    ELSE [vs |-> Store(vs.docs \o chunks), raised |-> "none"]

\* add_documents_to_store: embeds, then appends to the docstore
AddDocumentsToStore(vs, chunks, embedOk) ==
    IF ~vs.exists THEN [vs |-> vs, raised |-> "NoVectorStore"]
    ELSE IF chunks = <<>> THEN [vs |-> vs, raised |-> "none"]
    ELSE IF ~embedOk THEN [vs |-> vs, raised |-> "EmbeddingError"]
    ELSE [vs |-> Store(vs.docs \o chunks), raised |-> "none"]

\* delete_documents_by_source: drops the chunks of the source by id;
\* False when there is no store or no chunk of that source
DeleteDocumentsBySource(vs, name) ==
    IF ~vs.exists THEN [vs |-> vs, success |-> FALSE]
    ELSE IF \A i \in 1..Len(vs.docs) : vs.docs[i].source # name
         THEN [vs |-> vs, success |-> FALSE]
    ELSE [vs |-> Store(SelectSeq(vs.docs, LAMBDA c : c.source # name)),
          success |-> TRUE]

GetDocumentCount(vs) == IF ~vs.exists THEN 0 ELSE Len(vs.docs)
GetAllSources(vs) == IF ~vs.exists THEN {} ELSE {c.source : c \in Range(vs.docs)}

\* the embedding model seen from outside: a fixed score of a chunk for a
\* query, here how close the middle of the chunk lies to the place in a text
\* the query asks about
Similarity(query, c) ==
    LET mid == c.start + (c.len \div 2)
        at == 700 * query
    IN IF mid < at THEN mid - at ELSE at - mid

\* position of the best chunk among the positions in `left`: highest score,
\* the earlier docstore entry on a tie
BestOf(docs, query, left) ==
    CHOOSE i \in left :
        \A j \in left :
            \/ Similarity(query, docs[i]) > Similarity(query, docs[j])
            \/ (Similarity(query, docs[i]) = Similarity(query, docs[j]) /\ i <= j)

RECURSIVE Ranked(_, _, _, _)
Ranked(docs, query, left, k) ==
    IF k = 0 \/ left = {} THEN <<>>
    ELSE LET b == BestOf(docs, query, left)
         IN <<docs[b].source>> \o Ranked(docs, query, left \ {b}, k - 1)

\* search_similar_documents, as the sources of the ranked chunks
SearchSimilarDocuments(vs, query, k) ==
    IF ~vs.exists THEN <<>> ELSE Ranked(vs.docs, query, 1..Len(vs.docs), k)

\* ----------------------------------------------------- PersistenceManager
AbsentIndex == [state |-> "absent", docs |-> <<>>]
CorruptIndex == [state |-> "corrupt", docs |-> <<>>]
AbsentMeta ==
    [state |-> "absent", file_names |-> <<>>, raw_texts |-> NoTexts,
     vector_store_exists |-> FALSE, document_count |-> 0]
CorruptMeta ==
    [state |-> "corrupt", file_names |-> <<>>, raw_texts |-> NoTexts,
     vector_store_exists |-> FALSE, document_count |-> 0]

\* a metadata record that leaves the raw texts out
Metadata_NoRawTexts(vs, fns, rts) ==
    [state |-> "ok", file_names |-> fns, raw_texts |-> NoTexts,
     vector_store_exists |-> vs.exists, document_count |-> Len(fns)]

\* the metadata record json.dump writes
Metadata(vs, fns, rts) ==
    [state |-> "ok", file_names |-> fns, raw_texts |-> rts,
     vector_store_exists |-> vs.exists, document_count |-> Len(fns)]

\* PersistenceManager.save_knowledge_base: the index first, then metadata.json
PersistSave(index, meta, vs, fns, rts, fault) ==
    IF vs.exists /\ fault = "index_torn"
    THEN [index |-> CorruptIndex, meta |-> meta, ok |-> FALSE]
    ELSE LET written == IF vs.exists THEN [state |-> "ok", docs |-> vs.docs] ELSE index
         IN IF fault = "meta_refused" THEN [index |-> written, meta |-> meta, ok |-> FALSE]
            ELSE IF fault = "meta_torn"
                 THEN [index |-> written, meta |-> CorruptMeta, ok |-> FALSE]
            ELSE [index |-> written, meta |-> Metadata(vs, fns, rts), ok |-> TRUE]

NothingLoaded == [vs |-> NoStore, file_names |-> <<>>, raw_texts |-> NoTexts]

\* a load that takes whatever is at the index path, readable or not
PersistLoad_Unchecked(index, meta) ==
    IF meta.state = "absent" THEN NothingLoaded
    ELSE IF index.state = "absent"
         THEN [vs |-> NoStore, file_names |-> meta.file_names,
               raw_texts |-> meta.raw_texts]
    ELSE [vs |-> Store(index.docs), file_names |-> meta.file_names,
          raw_texts |-> meta.raw_texts]

\* PersistenceManager.load_knowledge_base
PersistLoad(index, meta) ==
    IF meta.state = "absent" THEN NothingLoaded
    ELSE IF meta.state = "corrupt" THEN NothingLoaded
    ELSE IF meta.vector_store_exists /\ index.state # "absent"
         THEN (IF index.state = "corrupt" THEN NothingLoaded
               ELSE [vs |-> Store(index.docs), file_names |-> meta.file_names,
                     raw_texts |-> meta.raw_texts])
    ELSE [vs |-> NoStore, file_names |-> meta.file_names, raw_texts |-> meta.raw_texts]

\* --------------------------------------------------- KnowledgeBaseManager
VARIABLES
    file_names,       \* KnowledgeBaseManager.file_names
    raw_texts,        \* KnowledgeBaseManager.raw_texts
    is_initialized,   \* KnowledgeBaseManager._is_initialized
    vector_store,     \* VectorStoreManager.vector_store
    disk_index,       \* <storage_dir>/vector_store
    disk_meta,        \* <storage_dir>/metadata.json
    engine,           \* AgentEngine: file_names, raw_texts, vectorstore, rag_chain,
                      \* agent_executor
    orchestration,    \* AgentEngine.orchestration: the OrchestrationManager with
                      \* its ToolRegistry, AgentExecutor and RAGRetriever
    last,             \* history: the last call, its arguments and its result
    pre,              \* history: the state the last call started from
    snap,             \* history: what the last complete save wrote, while it is on disk
    faults,           \* history: failures injected so far
    cleared,          \* history: clear_knowledge_base ran and no
                      \* create_knowledge_base has returned since
    tmp               \* the temporary files and directories on disk: the
                      \* copies of uploads in the working directory and the
                      \* page-image directories made by tempfile.mkdtemp

vars == <<file_names, raw_texts, is_initialized, vector_store,
          disk_index, disk_meta, engine, orchestration,
          last, pre, snap, faults, cleared, tmp>>

\* the manager and its storage as one record
Cur ==
    [file_names |-> file_names, raw_texts |-> raw_texts,
     is_initialized |-> is_initialized, vector_store |-> vector_store,
     disk_index |-> disk_index, disk_meta |-> disk_meta]

Result(st, raised, retList, retBool) ==
    [st |-> st, raised |-> raised, retList |-> retList, retBool |-> retBool]

\* KnowledgeBaseManager.save_knowledge_base
SaveKnowledgeBase(st, fault) ==
    IF ~st.is_initialized THEN [st |-> st, ok |-> TRUE]
    ELSE LET w == PersistSave(st.disk_index, st.disk_meta, st.vector_store,
                              st.file_names, st.raw_texts, fault)
         IN [st |-> [st EXCEPT !.disk_index = w.index, !.disk_meta = w.meta],
             ok |-> w.ok]

\* an add_documents without its state check
AddNotInitialized_Never(st) == FALSE

\* the state error of add_documents
AddNotInitialized(st) == ~st.is_initialized

\* KnowledgeBaseManager.create_knowledge_base
CreateKnowledgeBase(st, files, fault) ==
    IF files = <<>> THEN Result(st, "NoFiles", <<>>, FALSE)
    ELSE
    LET p == ProcessUploadedFiles(files)
        chunks == CreateValidChunks(GetTextSplitter(p.docs), p.docs)
        cv == CreateVectorStore(st.vector_store, chunks, fault # "embed")
        st1 == [st EXCEPT !.vector_store = cv.vs,
                          !.file_names = NewFileNames(files, p.failed),
                          !.raw_texts = ExtractRawTexts(files, p.docs),
                          !.is_initialized = TRUE]
        sv == SaveKnowledgeBase(st1, fault)
    IN IF p.docs = <<>> THEN Result(st, "NoProcessableFiles", <<>>, FALSE)
       ELSE IF chunks = <<>> THEN Result(st, "NoChunks", <<>>, FALSE)
       ELSE IF cv.raised # "none" THEN Result(st, cv.raised, <<>>, FALSE)
       ELSE IF ~sv.ok THEN Result(sv.st, "SaveError", <<>>, FALSE)
       ELSE Result(sv.st, "none", p.failed, FALSE)

\* KnowledgeBaseManager.add_documents
AddDocuments(st, files, fault) ==
    IF AddNotInitialized(st) THEN Result(st, "NotInitialized", <<>>, FALSE)
    ELSE
    LET p == ProcessUploadedFiles(files)
        chunks == CreateValidChunks(GetTextSplitter(p.docs), p.docs)
        av == AddDocumentsToStore(st.vector_store, chunks, fault # "embed")
        st1 == [st EXCEPT !.vector_store = av.vs,
                          !.file_names = st.file_names \o NewFileNames(files, p.failed),
                          !.raw_texts = DictUpdate(st.raw_texts,
                                                   ExtractRawTexts(files, p.docs))]
        sv == SaveKnowledgeBase(st1, fault)
    IN IF p.docs = <<>> THEN Result(st, "none", AllNames(files), FALSE)
       ELSE IF chunks = <<>> THEN Result(st, "NoChunks", <<>>, FALSE)
       ELSE IF av.raised # "none"
            THEN Result([st EXCEPT !.vector_store = av.vs], av.raised, <<>>, FALSE)
       ELSE IF ~sv.ok THEN Result(sv.st, "SaveError", <<>>, FALSE)
       ELSE Result(sv.st, "none", p.failed, FALSE)

\* KnowledgeBaseManager.delete_document
DeleteDocument(st, name, fault) ==
    IF ~st.is_initialized THEN Result(st, "none", <<>>, FALSE)
    ELSE IF name \notin Range(st.file_names) THEN Result(st, "none", <<>>, FALSE)
    ELSE
    LET dv == DeleteDocumentsBySource(st.vector_store, name)
        st1 == [st EXCEPT !.vector_store = dv.vs,
                          !.file_names = ListRemove(st.file_names, name),
                          !.raw_texts = IF name \in DOMAIN st.raw_texts
                                        THEN DictDel(st.raw_texts, name)
                                        ELSE st.raw_texts]
        sv == SaveKnowledgeBase(st1, fault)
    IN IF ~dv.success THEN Result(st, "none", <<>>, FALSE)
       ELSE IF ~sv.ok THEN Result(sv.st, "SaveError", <<>>, FALSE)
       ELSE Result(sv.st, "none", <<>>, TRUE)

\* KnowledgeBaseManager.load_knowledge_base
LoadKnowledgeBase(st) ==
    LET l == PersistLoad(st.disk_index, st.disk_meta)
    IN IF l.vs.exists
       THEN Result([st EXCEPT !.vector_store = l.vs,
                              !.file_names = l.file_names,
                              !.raw_texts = l.raw_texts,
                              !.is_initialized = TRUE], "none", <<>>, TRUE)
       ELSE Result(st, "none", <<>>, FALSE)

\* KnowledgeBaseManager.clear_knowledge_base over
\* PersistenceManager.clear_knowledge_base
ClearKnowledgeBase(st) ==
    Result([file_names |-> <<>>, raw_texts |-> NoTexts, is_initialized |-> FALSE,
            vector_store |-> NoStore, disk_index |-> AbsentIndex,
            disk_meta |-> AbsentMeta], "none", <<>>, FALSE)

\* KnowledgeBaseManager.__init__: a new manager over the same storage
NewManager(st) ==
    Result([st EXCEPT !.file_names = <<>>, !.raw_texts = NoTexts,
                      !.is_initialized = FALSE, !.vector_store = NoStore],
           "none", <<>>, FALSE)

\* ---------------------------------------------------- OrchestrationManager
\* a new OrchestrationManager: nothing initialized, agent mode
NoOrchestration ==
    [is_initialized |-> FALSE, conversation_mode |-> "agent",
     tool_registry |-> FALSE, agent_executor |-> FALSE, file_list |-> <<>>,
     rag_chain |-> FALSE]

\* ToolRegistry.initialize_tools
InitializeTools(o) == [o EXCEPT !.tool_registry = TRUE]

\* RAGRetriever.build_rag_chain
BuildRagChain(o, st) ==
    IF ~st.is_initialized THEN o
    ELSE [o EXCEPT !.rag_chain = st.vector_store.exists]

\* RAGRetriever.rebuild_chain
RebuildChain(o, st) == BuildRagChain([o EXCEPT !.rag_chain = FALSE], st)

\* AgentExecutor.build_agent
BuildAgent(o, file_list, buildOk) ==
    IF ~o.tool_registry THEN o
    ELSE [o EXCEPT !.file_list = file_list, !.agent_executor = buildOk]

\* AgentExecutor.rebuild_agent
RebuildAgent(o, file_list, buildOk) ==
    BuildAgent([o EXCEPT !.agent_executor = FALSE], file_list, buildOk)

\* AgentExecutor.is_ready
AgentIsReady(o) == o.agent_executor /\ o.tool_registry

\* RAGRetriever.is_ready
RagIsReady(o, st) == o.rag_chain /\ st.is_initialized

\* OrchestrationManager.is_ready
IsReady(o, st) ==
    o.is_initialized /\ o.tool_registry /\ (AgentIsReady(o) \/ RagIsReady(o, st))

\* OrchestrationManager.initialize
Initialize(o, st, buildOk) ==
    LET o1 == BuildAgent(BuildRagChain(InitializeTools(o), st), st.file_names, buildOk)
    IN IF AgentIsReady(o1) THEN [o1 EXCEPT !.is_initialized = TRUE] ELSE o1

\* OrchestrationManager.refresh_components
RefreshComponents(o, st, buildOk) ==
    RebuildAgent(IF st.is_initialized THEN RebuildChain(o, st) ELSE o,
                 st.file_names, buildOk)

\* what refresh_components returns: rebuild_chain and rebuild_agent catch
\* their own exceptions and their results are not looked at, so nothing
\* reaches the handler that returns False
RefreshReturns(o, st, buildOk) == TRUE

\* what a query gives: an answer or a user-facing error string, which
\* component ran the model service for it, and whether an exception left
\* the call
Reply(text, ran, raised) == [text |-> text, ran |-> ran, raised |-> raised]
ErrorString == Reply("error", "none", FALSE)

\* AgentExecutor.execute
Execute(o, svc) ==
    IF ~o.agent_executor THEN ErrorString
    ELSE IF svc = "ok" THEN Reply("answer", "agent", FALSE)
    ELSE Reply("error", "agent", FALSE)

\* RAGRetriever.query
RagQuery(o, svc) ==
    IF ~o.rag_chain THEN ErrorString
    ELSE IF svc = "ok" THEN Reply("answer", "rag", FALSE)
    ELSE Reply("error", "rag", FALSE)

\* OrchestrationManager.process_query over _process_rag_query and
\* _process_agent_query
ProcessQuery(o, st, mode, svc) ==
    IF ~o.is_initialized THEN ErrorString
    ELSE LET r == IF mode = "rag"
                  THEN (IF ~RagIsReady(o, st) THEN ErrorString ELSE RagQuery(o, svc))
                  ELSE (IF ~AgentIsReady(o) THEN ErrorString ELSE Execute(o, svc))
         IN IF r.raised THEN Reply("error", r.ran, FALSE) ELSE r

\* ------------------------------------------------------------ AgentEngine
\* a new AgentEngine: the mirror of the knowledge base is empty, no chain and
\* no agent are built; `aliased` says that vectorstore is the very object the
\* VectorStoreManager holds
NoEngine ==
    [file_names |-> <<>>, raw_texts |-> NoTexts, vectorstore |-> NoStore,
     aliased |-> FALSE, rag_chain |-> FALSE, agent_executor |-> FALSE]

\* what the engine's reference to the store shows after a call of the
\* manager: add and delete change the shared object in place, a create that
\* fails in its save has put a new object in the manager
SharedStore(e, op, r) ==
    IF op = "create" /\ r.raised = "SaveError" THEN [e EXCEPT !.aliased = FALSE]
    ELSE IF e.aliased THEN [e EXCEPT !.vectorstore = r.st.vector_store]
    ELSE e

\* AgentEngine._sync_state_from_knowledge_base
SyncStateFromKnowledgeBase(e, st) ==
    [e EXCEPT !.file_names = st.file_names, !.raw_texts = st.raw_texts,
              !.vectorstore = st.vector_store, !.aliased = st.vector_store.exists]

\* AgentEngine._build_rag_chain
EngineBuildRagChain(e) ==
    IF ~e.vectorstore.exists THEN e ELSE [e EXCEPT !.rag_chain = TRUE]

\* AgentEngine._build_agent
EngineBuildAgent(e) ==
    IF e.file_names = <<>> THEN e ELSE [e EXCEPT !.agent_executor = TRUE]

\* the engine and its orchestration as one record
Facade(e, o) == [engine |-> e, orchestration |-> o]

\* AgentEngine.create_and_save, after create_knowledge_base ended in r
CreateAndSave(e, o, r, buildOk) ==
    IF r.raised # "none" THEN Facade(e, o)
    ELSE Facade(EngineBuildAgent(EngineBuildRagChain(
                    SyncStateFromKnowledgeBase(e, r.st))),
                Initialize(o, r.st, buildOk))

\* AgentEngine.add_documents, after the manager's add_documents ended in r
EngineAddDocuments(e, o, r, buildOk) ==
    IF r.raised # "none" THEN Facade(e, o)
    ELSE Facade(EngineBuildAgent(EngineBuildRagChain(
                    SyncStateFromKnowledgeBase(e, r.st))),
                RefreshComponents(o, r.st, buildOk))

\* AgentEngine.delete_document, after the manager's delete_document ended in r
EngineDeleteDocument(e, o, r, buildOk) ==
    IF r.raised # "none" \/ ~r.retBool THEN Facade(e, o)
    ELSE LET e1 == SyncStateFromKnowledgeBase(e, r.st)
         IN IF e1.vectorstore.exists
            THEN Facade(EngineBuildAgent(EngineBuildRagChain(e1)),
                        RefreshComponents(o, r.st, buildOk))
            ELSE Facade([e1 EXCEPT !.rag_chain = FALSE, !.agent_executor = FALSE], o)

\* AgentEngine.load, after load_knowledge_base ended in r
EngineLoad(e, o, r, buildOk) ==
    IF ~r.retBool THEN Facade(e, o)
    ELSE Facade(EngineBuildAgent(EngineBuildRagChain(
                    SyncStateFromKnowledgeBase(e, r.st))),
                Initialize(o, r.st, buildOk))

\* AgentEngine.reset_storage, after clear_knowledge_base
ResetStorage(e, o) == Facade(NoEngine, o)

\* the rest of the AgentEngine method `op` once the manager's call ended in r
EngineStep(op, e, o, r, buildOk) ==
    LET e1 == SharedStore(e, op, r)
    IN CASE op = "create" -> CreateAndSave(e1, o, r, buildOk)
         [] op = "add" -> EngineAddDocuments(e1, o, r, buildOk)
         [] op = "delete" -> EngineDeleteDocument(e1, o, r, buildOk)
         [] op = "load" -> EngineLoad(e1, o, r, buildOk)
         [] op = "clear" -> ResetStorage(e1, o)
         [] op = "restart" -> Facade(NoEngine, NoOrchestration)
         [] OTHER -> Facade(e1, o)

\* what refresh_components returned inside the AgentEngine method `op`:
\* add_documents calls it once the manager's call has returned,
\* delete_document when a vector store is left; "none" when it was not called
Refreshed(op, r, o, buildOk) ==
    IF \/ op = "add" /\ r.raised = "none"
       \/ op = "delete" /\ r.raised = "none" /\ r.retBool /\ r.st.vector_store.exists
    THEN (IF RefreshReturns(o, r.st, buildOk) THEN "true" ELSE "false")
    ELSE "none"

\* the fallback of AgentEngine.invoke to the engine's own agent, without its
\* exception handler
LegacyInvoke_NoCatch(e, svc) ==
    IF ~e.agent_executor THEN ErrorString
    ELSE IF svc = "ok" THEN Reply("answer", "legacy", FALSE)
    ELSE Reply("", "legacy", TRUE)

\* the fallback of AgentEngine.invoke to the engine's own agent
LegacyInvoke(e, svc) ==
    IF ~e.agent_executor THEN ErrorString
    ELSE IF svc = "ok" THEN Reply("answer", "legacy", FALSE)
    ELSE Reply("error", "legacy", FALSE)

\* AgentEngine.invoke
EngineInvoke(e, o, st, svc) ==
    IF IsReady(o, st) THEN ProcessQuery(o, st, o.conversation_mode, svc)
    ELSE LegacyInvoke(e, svc)

\* --------------------------------------------------------- document tools
\* the tools of create_all_tools(engine) that read a document of the engine
DocumentTools == {"summarize_document", "extract_technical_specifications"}

\* what a document tool gives: its value (error text, or a mapping with an
\* error key, as "error"), whether it called the language model, and whether
\* an exception left it
ToolReply(value, called, raised) ==
    [value |-> value, called |-> called, raised |-> raised]

\* a summarize_document that does not look the file name up
SummarizeDocument_NoCheck(e, file_name, svc) ==
    IF svc = "ok" THEN ToolReply("summary", TRUE, FALSE)
    ELSE ToolReply("", TRUE, TRUE)

\* summarize_document(file_name, language): engine.llm.invoke is not guarded
SummarizeDocument(e, file_name, svc) ==
    IF file_name \notin DOMAIN e.raw_texts THEN ToolReply("error", FALSE, FALSE)
    ELSE IF svc = "ok" THEN ToolReply("summary", TRUE, FALSE)
    ELSE ToolReply("", TRUE, TRUE)

\* extract_technical_specifications(file_name, parameters_to_extract): a
\* failing model call or an answer that is no JSON gives the error mapping
ExtractTechnicalSpecifications(e, file_name, svc) ==
    IF file_name \notin DOMAIN e.raw_texts THEN ToolReply("error", FALSE, FALSE)
    ELSE IF svc = "ok" THEN ToolReply("specifications", TRUE, FALSE)
    ELSE ToolReply("error", TRUE, FALSE)

\* the document tool `tool` called on the engine e
DocumentTool(tool, e, file_name, svc) ==
    IF tool = "summarize_document" THEN SummarizeDocument(e, file_name, svc)
    ELSE ExtractTechnicalSpecifications(e, file_name, svc)

\* -------------------------------------------------- link budget calculator
\* Powers, gains and losses are in thousandths of a dB, distances in km and
\* frequencies in MHz; a result is in hundredths of a dB.  Distances and
\* frequencies are powers of ten, so that log10 is an integer, and the
\* thousandths are even, so that no value lies halfway between two
\* hundredths.
FsplOffset == 27550

EirpKey == "Effective Isotropic Radiated Power (EIRP) dBm"
FsplKey == "Free Space Path Loss (FSPL) dB"
PrxKey == "Calculated Received Power dBm"
ResultKeys == {EirpKey, FsplKey, PrxKey}

LinkBudgetInput ==
    [distance_km : {1, 10, 100},
     transmitter_power_dBm : {0, 20004, 30008},
     transmitter_cable_loss_dB : {0, 1504},
     transmitter_antenna_gain_dBi : {0, 12002},
     receiver_antenna_gain_dBi : {0, 9004},
     receiver_cable_loss_dB : {0, 2006},
     frequency_MHz : {100, 1000}]

\* the inputs the tool is called with between the calls of the engine
ToolInputs ==
    {[distance_km |-> 10, transmitter_power_dBm |-> 20004,
      transmitter_cable_loss_dB |-> 1504, transmitter_antenna_gain_dBi |-> 12002,
      receiver_antenna_gain_dBi |-> 9004, receiver_cable_loss_dB |-> 2006,
      frequency_MHz |-> 1000]}

\* math.log10 of a power of ten
RECURSIVE Log10(_)
Log10(x) == IF x < 10 THEN 0 ELSE 1 + Log10(x \div 10)

\* 20 * math.log10(x), in thousandths of a dB
TwentyLog10(x) == 20 * 1000 * Log10(x)

\* round(x, 2) of a value in thousandths, in hundredths
Round2(x) == (x + 5) \div 10

\* a calculator that takes its received power from the rounded EIRP and FSPL
CalculateLinkBudget_FromRounded(a) ==
    LET eirp_dBm == a.transmitter_power_dBm - a.transmitter_cable_loss_dB
                        + a.transmitter_antenna_gain_dBi
        fspl_dB == TwentyLog10(a.distance_km) + TwentyLog10(a.frequency_MHz)
                       + FsplOffset
        received_power_dBm == 10 * Round2(eirp_dBm) - 10 * Round2(fspl_dB)
                                  + a.receiver_antenna_gain_dBi
                                  - a.receiver_cable_loss_dB
    IN (EirpKey :> Round2(eirp_dBm)) @@ (FsplKey :> Round2(fspl_dB))
           @@ (PrxKey :> Round2(received_power_dBm))

\* calculate_link_budget
CalculateLinkBudget(a) ==
    LET eirp_dBm == a.transmitter_power_dBm - a.transmitter_cable_loss_dB
                        + a.transmitter_antenna_gain_dBi
        fspl_dB == TwentyLog10(a.distance_km) + TwentyLog10(a.frequency_MHz)
                       + FsplOffset
        received_power_dBm == eirp_dBm - fspl_dB + a.receiver_antenna_gain_dBi
                                  - a.receiver_cable_loss_dB
    IN (EirpKey :> Round2(eirp_dBm)) @@ (FsplKey :> Round2(fspl_dB))
           @@ (PrxKey :> Round2(received_power_dBm))

\* what the tool returns when it refuses to run
NoResult == [k \in ResultKeys |-> 0]

\* a calculator bound to the engine like knowledge_base_qa: it refuses to
\* run without a retrieval chain
CalculatorTool_Bound(e, a) ==
    IF ~e.rag_chain THEN NoResult ELSE CalculateLinkBudget(a)

\* the calculate_link_budget tool of create_all_tools(engine): the engine is
\* not bound to it
CalculatorTool(e, a) == CalculateLinkBudget(a)

\* ------------------------------------------------------------- the system
NoSnap == [valid |-> FALSE, file_names |-> <<>>, raw_texts |-> NoTexts,
           vector_store |-> NoStore]

NoPre ==
    [file_names |-> <<>>, raw_texts |-> NoTexts, is_initialized |-> FALSE,
     vector_store |-> NoStore, disk_index |-> AbsentIndex, disk_meta |-> AbsentMeta]

\* no temporary file or directory is on disk
NoTmp == [files |-> {}, dirs |-> 0]

NoCall == [op |-> "idle", files |-> <<>>, name |-> "", raised |-> "none",
           retList |-> <<>>, retBool |-> FALSE, reply |-> "", ran |-> "none",
           args |-> <<>>, result |-> NoResult, refreshed |-> "none"]

Init ==
    /\ file_names = <<>>
    /\ raw_texts = NoTexts
    /\ is_initialized = FALSE
    /\ vector_store = NoStore
    /\ disk_index = AbsentIndex
    /\ disk_meta = AbsentMeta
    /\ engine = NoEngine
    /\ orchestration = NoOrchestration
    /\ last = NoCall
    /\ pre = NoPre
    /\ snap = NoSnap
    /\ faults = 0
    /\ cleared = FALSE
    /\ tmp = NoTmp

\* the model's bounds on what a call may build
WithinBounds(st) ==
    /\ Len(st.file_names) <= MaxDocs
    /\ Len(st.vector_store.docs) <= MaxChunks

\* a call made with `fault`, the method of the manager ending in r: the
\* manager and the storage take r.st; when the call was made on the
\* AgentEngine the engine goes on with the rest of its method, when it was
\* made on the KnowledgeBaseManager itself the engine sees nothing of it;
\* the history records the call and the caller then reads the result (Return)
Finish(op, files, name, fault, r, viaEngine) ==
    /\ last.op = "idle"
    /\ WithinBounds(r.st)
    /\ faults + (IF fault \in StorageFaults THEN 1 ELSE 0) <= MaxFaults
    /\ fault \in StorageFaults \cup {"embed"} =>
           r.raised \in {"EmbeddingError", "SaveError"}
    /\ fault = "agent_build" =>
           /\ viaEngine
           /\ EngineStep(op, engine, orchestration, r, FALSE)
                  # EngineStep(op, engine, orchestration, r, TRUE)
    /\ LET f == IF viaEngine
                THEN EngineStep(op, engine, orchestration, r, fault # "agent_build")
                ELSE Facade(engine, orchestration)
       IN /\ engine' = f.engine
          /\ orchestration' = f.orchestration
    /\ cleared' = IF op = "clear" THEN TRUE
                  ELSE IF op = "create" /\ r.raised = "none" THEN FALSE
                  ELSE cleared
    /\ file_names' = r.st.file_names
    /\ raw_texts' = r.st.raw_texts
    /\ is_initialized' = r.st.is_initialized
    /\ vector_store' = r.st.vector_store
    /\ disk_index' = r.st.disk_index
    /\ disk_meta' = r.st.disk_meta
    /\ last' = [op |-> op, files |-> files, name |-> name, raised |-> r.raised,
                retList |-> r.retList, retBool |-> r.retBool,
                reply |-> "", ran |-> "none", args |-> <<>>, result |-> NoResult,
                refreshed |-> IF viaEngine
                              THEN Refreshed(op, r, orchestration,
                                             fault # "agent_build")
                              ELSE "none"]
    /\ pre' = Cur
    /\ faults' = faults + (IF fault \in StorageFaults THEN 1 ELSE 0)
    /\ tmp' = tmp
    /\ snap' = IF r.st.disk_index = disk_index /\ r.st.disk_meta = disk_meta
               THEN snap
               ELSE IF r.raised = "none" /\ r.st.disk_meta.state = "ok"
                    THEN [valid |-> TRUE, file_names |-> r.st.file_names,
                          raw_texts |-> r.st.raw_texts,
                          vector_store |-> r.st.vector_store]
               ELSE NoSnap

CreateWith(batches, fs, viaEngine) ==
    \E files \in batches, fault \in fs :
        Finish("create", files, "", fault, CreateKnowledgeBase(Cur, files, fault),
               viaEngine)

AddWith(batches, fs, viaEngine) ==
    \E files \in batches, fault \in fs :
        Finish("add", files, "", fault, AddDocuments(Cur, files, fault), viaEngine)

DeleteWith(fs, viaEngine) ==
    \E name \in Names, fault \in fs \ {"embed"} :
        Finish("delete", <<>>, name, fault, DeleteDocument(Cur, name, fault),
               viaEngine)

SaveWith(fs, viaEngine) ==
    \E fault \in fs \ {"embed"} :
        LET sv == SaveKnowledgeBase(Cur, fault)
        IN Finish("save", <<>>, "", fault,
                  Result(sv.st, IF sv.ok THEN "none" ELSE "SaveError", <<>>, FALSE),
                  viaEngine)

LoadWith(fs, viaEngine) ==
    \E fault \in fs \cap {"none", "agent_build"} :
        Finish("load", <<>>, "", fault, LoadKnowledgeBase(Cur), viaEngine)

ClearWith(viaEngine) ==
    Finish("clear", <<>>, "", "none", ClearKnowledgeBase(Cur), viaEngine)

RestartWith(viaEngine) ==
    Finish("restart", <<>>, "", "none", NewManager(Cur), viaEngine)

\* the caller has read the result of the call
Return ==
    /\ last.op # "idle"
    /\ last' = NoCall
    /\ pre' = NoPre
    /\ UNCHANGED <<file_names, raw_texts, is_initialized, vector_store,
                   disk_index, disk_meta, engine, orchestration,
                   snap, faults, cleared, tmp>>

\* a query ended in reply r: no state of the engine changes
Answered(op, r) ==
    /\ last.op = "idle"
    /\ last' = [NoCall EXCEPT !.op = op,
                              !.raised = IF r.raised THEN "ServiceError" ELSE "none",
                              !.reply = r.text, !.ran = r.ran]
    /\ pre' = Cur
    /\ UNCHANGED <<file_names, raw_texts, is_initialized, vector_store,
                   disk_index, disk_meta, engine, orchestration,
                   snap, faults, cleared, tmp>>

\* AgentEngine.invoke(query, chat_history)
Invoke ==
    \E svc \in Services :
        Answered("invoke", EngineInvoke(engine, orchestration, Cur, svc))

\* OrchestrationManager.process_query(query, chat_history, mode)
Query ==
    \E svc \in Services, mode \in Modes :
        Answered(IF mode = "rag" THEN "query_rag" ELSE "query_agent",
                 ProcessQuery(orchestration, Cur, mode, svc))

\* the calculate_link_budget tool called with the inputs a
Calculated(a) ==
    /\ last.op = "idle"
    /\ last' = [NoCall EXCEPT !.op = "calculate", !.args = <<a>>,
                              !.result = CalculatorTool(engine, a)]
    /\ pre' = Cur
    /\ UNCHANGED <<file_names, raw_texts, is_initialized, vector_store,
                   disk_index, disk_meta, engine, orchestration,
                   snap, faults, cleared, tmp>>

Calculate == \E a \in ToolInputs : Calculated(a)

\* the calls of a run whose storage never fails, made on the AgentEngine
Create == CreateWith(Batches, ServiceFaults, TRUE)
Add == AddWith(Batches, ServiceFaults, TRUE)
Delete == DeleteWith(ServiceFaults, TRUE)
Save == SaveWith(ServiceFaults, TRUE)
Load == LoadWith(ServiceFaults, TRUE)
Clear == ClearWith(TRUE)
Restart == RestartWith(TRUE)

Next ==
    \/ Create \/ Add \/ Delete \/ Load \/ Save \/ Clear \/ Restart
    \/ Invoke \/ Query \/ Calculate \/ Return

Spec == Init /\ [][Next]_vars

\* the calculator alone, over all its inputs
CalculateAny == \E a \in LinkBudgetInput : Calculated(a)

NextCalculator == CalculateAny \/ Return

SpecCalculator == Init /\ [][NextCalculator]_vars

\* an upload handed to process_uploaded_files: its name is the path its copy
\* is written to, which can be refused, and its bytes are a document
Uploads ==
    {[name |-> "a", writable |-> w, ext |-> p.ext, doc |-> p.doc] :
        w \in BOOLEAN, p \in {q \in Paths : q.exists}}

\* the body of the loop of process_uploaded_files for one upload: the copy is
\* written, parsed and removed again; gives whether the file failed and the
\* temporary files and directories that are on disk afterwards
ProcessUpload(u, env, t) ==
    IF ~u.writable THEN [failed |-> TRUE, parsed |-> FALSE, tmp |-> t]
    ELSE LET written == [t EXCEPT !.files = @ \cup {u.name}]
             p == ParseDocument([ext |-> u.ext, exists |-> TRUE, doc |-> u.doc], env)
             after == [written EXCEPT !.dirs = @ + (IF p.temp_dir THEN 1 ELSE 0)]
         IN [failed |-> "error" \in p.res.keys, parsed |-> TRUE,
             tmp |-> [after EXCEPT !.files = @ \ {u.name}]]

\* a call of the parser or of the document processor ended with `result`,
\* leaving the temporary files and directories t on disk
ParserCall(op, args, result, t) ==
    /\ last.op = "idle"
    /\ t.dirs <= MaxTmpDirs
    /\ last' = [NoCall EXCEPT !.op = op, !.args = args, !.result = result]
    /\ pre' = Cur
    /\ tmp' = t
    /\ UNCHANGED <<file_names, raw_texts, is_initialized, vector_store,
                   disk_index, disk_meta, engine, orchestration,
                   snap, faults, cleared>>

\* DocumentParser._extract_text_from_image(image_path)
ExtractImage ==
    \E env \in OcrEnvs :
        ParserCall("extract_image", <<env>>, ExtractTextFromImage(env), tmp)

\* DocumentParser.parse_document(file_path)
Parse ==
    \E path \in Paths, env \in ParseEnvs :
        LET p == ParseDocument(path, env)
        IN ParserCall("parse", <<path, env>>, p.res,
                      [tmp EXCEPT !.dirs = @ + (IF p.temp_dir THEN 1 ELSE 0)])

\* DocumentProcessor.process_uploaded_files([file])
Process ==
    \E u \in Uploads, env \in ParseEnvs :
        LET r == ProcessUpload(u, env, tmp)
        IN ParserCall("process", <<u, env>>, r, r.tmp)

NextParser == ExtractImage \/ Parse \/ Process \/ Return

SpecParser == Init /\ [][NextParser]_vars

\* both splitters are asked for a configuration for the documents docs
GetSplitters ==
    \E docs \in SplitterBatches :
        /\ last.op = "idle"
        /\ last' = [NoCall EXCEPT
                       !.op = "splitter", !.args = <<docs>>,
                       !.result = [processor |-> GetTextSplitter(AsDocs(docs)),
                                   engine |-> EngineGetTextSplitter(docs)]]
        /\ pre' = Cur
        /\ UNCHANGED <<file_names, raw_texts, is_initialized, vector_store,
                       disk_index, disk_meta, engine, orchestration,
                       snap, faults, cleared, tmp>>

NextSplitter == GetSplitters \/ Return

SpecSplitter == Init /\ [][NextSplitter]_vars

\* the calls of a run in which writes to the storage location can fail,
\* made on the KnowledgeBaseManager
DiskFaults == {"none", "embed"} \cup StorageFaults
CreateF == CreateWith(FaultBatches, DiskFaults, FALSE)
AddF == AddWith(FaultBatches, DiskFaults, FALSE)
DeleteF == DeleteWith(DiskFaults, FALSE)
SaveF == SaveWith(DiskFaults, FALSE)
LoadF == LoadWith(DiskFaults, FALSE)
ClearF == ClearWith(FALSE)
RestartF == RestartWith(FALSE)

NextF ==
    \/ CreateF \/ AddF \/ DeleteF \/ LoadF \/ SaveF \/ ClearF \/ RestartF
    \/ Return

SpecFaults == Init /\ [][NextF]_vars

\* a document tool is called for the file `name`
UseTool ==
    \E tool \in DocumentTools, name \in Names, svc \in Services :
        LET r == DocumentTool(tool, engine, name, svc)
        IN /\ last.op = "idle"
           /\ last' = [NoCall EXCEPT
                          !.op = tool, !.name = name,
                          !.raised = IF r.raised THEN "ServiceError" ELSE "none",
                          !.reply = r.value,
                          !.ran = IF r.called THEN "llm" ELSE "none"]
           /\ pre' = Cur
           /\ UNCHANGED <<file_names, raw_texts, is_initialized, vector_store,
                          disk_index, disk_meta, engine, orchestration,
                          snap, faults, cleared, tmp>>

\* the calls of a run in which writes to the storage location can fail,
\* made on the AgentEngine
EngineFaultBatches ==
    {<<File("a", ParseContent(ShortText))>>, <<File("b", ParseContent(MidText))>>}
EngineDiskFaults == {"none", "index_torn", "meta_refused"}
CreateEF == CreateWith(EngineFaultBatches, EngineDiskFaults, TRUE)
AddEF == AddWith(EngineFaultBatches, EngineDiskFaults, TRUE)
DeleteEF == DeleteWith(EngineDiskFaults, TRUE)
LoadEF == LoadWith(EngineDiskFaults, TRUE)
ClearEF == ClearWith(TRUE)

NextEF == CreateEF \/ AddEF \/ DeleteEF \/ LoadEF \/ ClearEF \/ UseTool \/ Return

SpecEngineFaults == Init /\ [][NextEF]_vars

\* ------------------------------------------------------------- properties
Queries == {1, 2}

Count(s, x) == Cardinality({i \in 1..Len(s) : s[i] = x})
ChunksOf(vs, n) == SelectSeq(vs.docs, LAMBDA c : c.source = n)
BatchNames(files) == {f.name : f \in Range(files)}

\* a file the batch cannot use: parsing failed, the text is the image-only
\* marker, or fewer than min_chunk_length characters are left after strip()
Unusable(f) ==
    \/ f.parse.error
    \/ f.parse.text.marker
    \/ f.parse.text.body < min_chunk_length

RECURSIVE NamesWhere(_, _)
NamesWhere(files, unusable) ==
    IF files = <<>> THEN <<>>
    ELSE (IF Unusable(Head(files)) = unusable THEN <<Head(files).name>> ELSE <<>>)
         \o NamesWhere(Tail(files), unusable)

\* the state is what it was when the last call started
Unchanged == Cur = pre

\* C1: an add_documents on a Ready knowledge base with a file whose name is
\* already registered leaves raw_texts[name] as it was, adds no chunk of that
\* source and no second entry of the name to file_names.
C1_DuplicateRejected ==
    (last.op = "add" /\ pre.is_initialized) =>
        \A n \in BatchNames(last.files) \cap Range(pre.file_names) :
            /\ n \in DOMAIN pre.raw_texts =>
                   (n \in DOMAIN raw_texts /\ raw_texts[n] = pre.raw_texts[n])
            /\ ChunksOf(vector_store, n) = ChunksOf(pre.vector_store, n)
            /\ Count(file_names, n) = Count(pre.file_names, n)

\* C2: a Ready manager has a non-empty registry and at least one chunk in the
\* index for every registered name.
C2_ReadyInvariant ==
    is_initialized =>
        /\ file_names # <<>>
        /\ \A n \in Range(file_names) : n \in GetAllSources(vector_store)

\* C3: between calls every chunk of the index has a registered source.
C3_NoOrphanedChunks ==
    \A c \in Range(vector_store.docs) : c.source \in Range(file_names)

\* the remaining documents chunked afresh as one batch
RemainingDocs ==
    LET known == SelectSeq(file_names, LAMBDA n : n \in DOMAIN raw_texts)
    IN [i \in 1..Len(known) |-> [text |-> raw_texts[known[i]], source |-> known[i]]]
Rechunked == CreateValidChunks(GetTextSplitter(RemainingDocs), RemainingDocs)

\* C4: after delete_document(D) returned True on a Ready knowledge base, D is
\* no source of the index and the index holds as many chunks as chunking the
\* remaining raw texts as one batch gives.
C4_DeletionInvariant ==
    (last.op = "delete" /\ pre.is_initialized /\ last.retBool) =>
        /\ last.name \notin GetAllSources(vector_store)
        /\ GetDocumentCount(vector_store) = Len(Rechunked)

\* C5: on a Ready knowledge base delete_document(name) returns False exactly
\* when name is not registered; for a registered name it returns True and the
\* name is then in neither file_names nor raw_texts.
C5_DeleteResult ==
    (last.op = "delete" /\ pre.is_initialized) =>
        /\ ~last.retBool <=> last.name \notin Range(pre.file_names)
        /\ last.name \in Range(pre.file_names) =>
               /\ last.name \notin Range(file_names)
               /\ last.name \notin DOMAIN raw_texts

\* C6: a create_knowledge_base with at least one usable file, the embedding
\* service working, returns the names of the unusable files, registers the
\* other files in upload order, each with its raw text, and ends Ready.
C6_PartialFailureCreate ==
    (/\ last.op = "create"
     /\ \E f \in Range(last.files) : ~Unusable(f)
     /\ last.raised # "EmbeddingError") =>
        /\ last.raised = "none"
        /\ last.retList = NamesWhere(last.files, TRUE)
        /\ file_names = NamesWhere(last.files, FALSE)
        /\ DOMAIN raw_texts = Range(file_names)
        /\ \A f \in Range(last.files) :
               ~Unusable(f) => raw_texts[f.name] = f.parse.text
        /\ is_initialized

\* C7: a create_knowledge_base of no file, or of files that are all unusable,
\* raises the no-files error and leaves the manager and the storage as they
\* were.
C7_EmptyBatchFailure ==
    (last.op = "create" /\ \A f \in Range(last.files) : Unusable(f)) =>
        /\ last.raised \in {"NoFiles", "NoProcessableFiles"}
        /\ last.files = <<>> <=> last.raised = "NoFiles"
        /\ Unchanged

C7_Witness ==
    /\ last.op = "create"
    /\ Len(last.files) = 2
    /\ \A f \in Range(last.files) : Unusable(f)
    /\ last.raised = "NoProcessableFiles"
    /\ pre.is_initialized
    /\ pre.file_names # <<>>
    /\ pre.disk_meta.state = "ok"

\* C8: an add_documents on a manager that is not initialized raises the
\* not-initialized error and leaves the manager and the storage as they were.
C8_AddNotInitialized ==
    (last.op = "add" /\ ~pre.is_initialized) =>
        /\ last.raised = "NotInitialized"
        /\ Unchanged

C8_Witness ==
    /\ last.op = "add"
    /\ ~pre.is_initialized
    /\ \E f \in Range(last.files) : ~Unusable(f)
    /\ pre.disk_meta.state = "ok"
    /\ last.raised = "NotInitialized"

\* the names of the batch that are accepted and were not registered before
NewlyAccepted(files, old) ==
    SelectSeq(NamesWhere(files, FALSE), LAMBDA n : n \notin Range(old))

\* C9: after an add_documents that returned on a Ready knowledge base, the
\* chunks of the index before the call are still in it, file_names is the old
\* list followed by the newly accepted names, every old raw text is as it
\* was, and the persisted metadata holds the new file_names and raw_texts.
C9_AddAppends ==
    (last.op = "add" /\ pre.is_initialized /\ last.raised = "none") =>
        /\ Len(vector_store.docs) >= Len(pre.vector_store.docs)
        /\ SubSeq(vector_store.docs, 1, Len(pre.vector_store.docs))
               = pre.vector_store.docs
        /\ file_names = pre.file_names \o NewlyAccepted(last.files, pre.file_names)
        /\ \A n \in DOMAIN pre.raw_texts :
               n \in DOMAIN raw_texts /\ raw_texts[n] = pre.raw_texts[n]
        /\ disk_meta.file_names = file_names
        /\ disk_meta.raw_texts = raw_texts

\* C10: a load_knowledge_base that finds what the last complete save wrote,
\* on the saving manager or on a new one, returns True and gives back the
\* saved file_names, raw_texts and index, so that every search ranks the same
\* sources in the same order.
C10_IdempotentReload ==
    (last.op = "load" /\ snap.valid) =>
        /\ last.retBool
        /\ is_initialized
        /\ file_names = snap.file_names
        /\ raw_texts = snap.raw_texts
        /\ vector_store = snap.vector_store
        /\ \A q \in Queries, k \in {1, DefaultK} :
               SearchSimilarDocuments(vector_store, q, k)
                   = SearchSimilarDocuments(snap.vector_store, q, k)

C10_Witness ==
    /\ last.op = "load"
    /\ snap.valid
    /\ ~pre.is_initialized
    /\ Len(file_names) >= 2
    /\ Cardinality(DOMAIN raw_texts) >= 2
    /\ Len(vector_store.docs) >= 3
    /\ SearchSimilarDocuments(vector_store, 1, DefaultK)
           # SearchSimilarDocuments(vector_store, 2, DefaultK)

\* C11: a load_knowledge_base that returns True gives the manager an index
\* and a file_names/raw_texts record written by one and the same complete
\* save, whatever writes were interrupted before it.
C11_CrashSafeSave ==
    (last.op = "load" /\ last.retBool) =>
        /\ snap.valid
        /\ vector_store = snap.vector_store
        /\ file_names = snap.file_names
        /\ raw_texts = snap.raw_texts

\* a snapshot that cannot be read: metadata.json does not parse, or the index
\* it announces cannot be deserialized
CorruptSnapshot(st) ==
    \/ st.disk_meta.state = "corrupt"
    \/ /\ st.disk_meta.state = "ok"
       /\ st.disk_meta.vector_store_exists
       /\ st.disk_index.state = "corrupt"

\* C12: over a snapshot that cannot be read, PersistenceManager's load gives
\* no index and empty file_names and raw_texts, load_knowledge_base raises
\* nothing, returns False and leaves the manager as it was (Empty when it was
\* Empty); a create_knowledge_base of a usable batch then succeeds and leaves
\* a readable snapshot.
C12_CorruptedSnapshot ==
    /\ (last.op = "load" /\ CorruptSnapshot(pre)) =>
           /\ PersistLoad(pre.disk_index, pre.disk_meta) = NothingLoaded
           /\ last.raised = "none"
           /\ ~last.retBool
           /\ Unchanged
    /\ (/\ last.op = "create"
        /\ CorruptSnapshot(pre)
        /\ \E f \in Range(last.files) : ~Unusable(f)
        /\ last.raised \notin {"EmbeddingError", "SaveError"}) =>
           /\ last.raised = "none"
           /\ is_initialized
           /\ ~CorruptSnapshot(Cur)
           /\ PersistLoad(disk_index, disk_meta).vs = vector_store

C12_Witness ==
    /\ last.op = "load"
    /\ pre.disk_meta.state = "corrupt"
    /\ pre.disk_index.state = "ok"
    /\ ~pre.is_initialized
    /\ ~is_initialized

\* C13: load_knowledge_base returns True exactly when the snapshot has a
\* non-empty file_names together with an index; it then makes the manager
\* Ready, and otherwise leaves an Empty manager Empty.
C13_LoadOnlyNonEmpty ==
    last.op = "load" =>
        /\ last.retBool <=>
               /\ pre.disk_meta.state = "ok"
               /\ pre.disk_meta.file_names # <<>>
               /\ pre.disk_meta.vector_store_exists
               /\ pre.disk_index.state = "ok"
        /\ last.retBool => is_initialized
        /\ (~last.retBool /\ ~pre.is_initialized) => ~is_initialized

\* C15: file_names holds no name twice and its names are the keys of
\* raw_texts.
C15_NameUniqueness ==
    /\ \A n \in Names : Count(file_names, n) <= 1
    /\ Range(file_names) = DOMAIN raw_texts

\* C14: after clear_knowledge_base file_names and raw_texts are empty, there
\* is no index, the manager is not initialized and the storage location is
\* empty; from then on every load_knowledge_base returns False until a
\* create_knowledge_base has returned.
C14_Reset ==
    /\ last.op = "clear" =>
           /\ file_names = <<>>
           /\ raw_texts = NoTexts
           /\ vector_store = NoStore
           /\ ~is_initialized
           /\ disk_index = AbsentIndex
           /\ disk_meta = AbsentMeta
    /\ (last.op = "load" /\ cleared) => ~last.retBool

\* the calls that put a query to the engine or to its orchestration
QueryOps == {"invoke", "query_agent", "query_rag"}

\* C16: a query put to the engine, or to its OrchestrationManager, while the
\* knowledge base is not Ready is answered with an error string, and neither
\* the agent nor the retrieval chain nor the model service runs for it.
C16_QueryNotReady ==
    (last.op \in QueryOps /\ ~is_initialized) =>
        /\ last.raised = "none"
        /\ last.reply = "error"
        /\ last.ran = "none"

\* C17: whenever OrchestrationManager.is_ready() holds, with the agent or
\* with the retrieval chain, the tool registry is initialized and the
\* KnowledgeBaseManager is initialized.
C17_AgentReadiness ==
    IsReady(orchestration, Cur) =>
        /\ orchestration.tool_registry
        /\ is_initialized

\* C18: in every state AgentEngine.invoke returns a string, whether the model
\* service answers or fails: no exception leaves the call, and a failure of
\* the service is returned as an error string.
C18_InvokeNeverRaises ==
    /\ \A svc \in Services :
           LET r == EngineInvoke(engine, orchestration, Cur, svc)
           IN /\ ~r.raised
              /\ r.text \in {"answer", "error"}
              /\ svc = "fail" => r.text = "error"
    /\ last.op = "invoke" =>
           /\ last.raised = "none"
           /\ last.reply \in {"answer", "error"}

C18_Witness ==
    /\ last.op = "invoke"
    /\ last.ran = "legacy"
    /\ last.reply = "error"
    /\ ~IsReady(orchestration, Cur)
    /\ engine.agent_executor

PdfExts == {".pdf", ".PDF"}
DocxExts == {".docx", ".DocX"}
TxtExts == {".txt", ".TXT"}

\* C21: parse_document raises nothing and returns a dict with the one key
\* content or the one key error; a missing file and every extension other
\* than .pdf/.docx/.txt in any case give an error, and a file with one of
\* these extensions, in upper or lower case, gets the result of its parser.
C21_ExtractorShape ==
    last.op = "parse" =>
        LET path == last.args[1]
            env == last.args[2]
            r == last.result
        IN /\ ~r.raised
           /\ r.keys \in {{"content"}, {"error"}}
           /\ ~path.exists => r = ErrorResult("File not found")
           /\ (path.exists /\ path.ext \notin PdfExts \cup DocxExts \cup TxtExts) =>
                  r = ErrorResult("Unsupported file format")
           /\ (path.exists /\ path.ext \in PdfExts) => r = ParsePdf(path.doc, env).res
           /\ (path.exists /\ path.ext \in DocxExts) => r = ParseDocx(path.doc, env).res
           /\ (path.exists /\ path.ext \in TxtExts) => r = ParseTxt(path.doc).res

\* a PDF with an upper-case extension whose second page is read by OCR
C21_Witness ==
    /\ last.op = "parse"
    /\ last.args[1].ext = ".PDF"
    /\ last.args[1].exists
    /\ last.result.keys = {"content"}
    /\ Len(last.result.content) = 2
    /\ last.result.content[2].by = "tesseract"

\* C24: when parse_document or process_uploaded_files has returned, with a
\* result or with a failed file, no copy of an upload and no page-image
\* directory made during the call is left on disk.
C24_TempCleanup ==
    last.op \in {"parse", "process"} => tmp = NoTmp

\* the positions of psm_configs at which tesseract reads text
PsmHits(env) == {i \in 1..4 : env.psm[<<6, 8, 11, 13>>[i]] = "text"}

\* C26: _extract_text_from_image calls the vision model first and returns
\* its text when there is some; only without such a text does it run
\* tesseract, in the modes 6, 8, 11, 13 in this order up to the first one
\* that reads text, whose text it returns; with no text from any call it
\* returns the empty text, and no exception leaves it.
C26_OcrFallbackOrder ==
    last.op = "extract_image" =>
        LET env == last.args[1]
            r == last.result
            visionText == env.vision_available /\ env.vision = "text"
            ocrRuns == /\ ~visionText
                       /\ env.ocr_available
                       /\ env.tesseract = "ok"
                       /\ env.image = "ok"
            hits == PsmHits(env)
            stop == IF hits = {} THEN 4 ELSE CHOOSE i \in hits : \A j \in hits : i <= j
            modes == SelectSeq(r.calls, LAMBDA c : c.kind = "tesseract")
        IN /\ ~r.raised
           /\ env.vision_available =>
                  (r.calls # <<>> /\ r.calls[1] = VisionCall)
           /\ \A i \in 2..Len(r.calls) : r.calls[i].kind = "tesseract"
           /\ ~env.vision_available => \A i \in 1..Len(r.calls) : r.calls[i] # VisionCall
           /\ visionText => (r.text = VisionCall /\ r.calls = <<VisionCall>>)
           /\ (~visionText /\ ~ocrRuns) => (r.text = NoText /\ modes = <<>>)
           /\ ocrRuns =>
                  /\ modes = [i \in 1..stop |-> TesseractCall(<<6, 8, 11, 13>>[i])]
                  /\ r.text = IF hits = {} THEN NoText
                              ELSE TesseractCall(<<6, 8, 11, 13>>[stop])

\* the vision model gives nothing, tesseract reads nothing in mode 6, fails
\* in mode 8 and reads text in mode 11, where mode 13 would read text too
C26_Witness ==
    /\ last.op = "extract_image"
    /\ last.args[1].vision_available
    /\ last.args[1].vision = "blank"
    /\ last.args[1].psm[8] = "raise"
    /\ last.args[1].psm[13] = "text"
    /\ last.result.text = TesseractCall(11)
    /\ Len(last.result.calls) = 4

\* C22: every chunk of the index is longer than min_chunk_length after
\* strip(), and a create_knowledge_base or add_documents whose documents
\* split into chunks that are all min_chunk_length or shorter raises the
\* no-chunks error and indexes nothing.
C22_ChunkMinLength ==
    /\ \A c \in Range(vector_store.docs) : c.len > min_chunk_length
    /\ (\/ last.op = "create"
        \/ last.op = "add" /\ pre.is_initialized) =>
           LET docs == ProcessUploadedFiles(last.files).docs
               split == SplitDocs(docs, GetTextSplitter(docs))
           IN (docs # <<>> /\ \A c \in Range(split) : c.len <= min_chunk_length) =>
                  /\ last.raised = "NoChunks"
                  /\ Unchanged

\* an add_documents of a text of exactly min_chunk_length characters to a
\* knowledge base that holds chunks
C22_Witness ==
    /\ last.op = "add"
    /\ pre.is_initialized
    /\ vector_store.docs # <<>>
    /\ \E f \in Range(last.files) : ~f.parse.error /\ f.parse.text = TenText
    /\ last.raised = "NoChunks"

\* C23: for every batch of documents the configuration chosen by
\* DocumentProcessor.get_text_splitter and the one chosen by
\* AgentEngine._get_text_splitter have 0 <= overlap < chunk_size and a
\* chunk_size of at least 50 characters.
C23_ChunkingConfigBounds ==
    last.op = "splitter" =>
        LET p == last.result.processor
            e == last.result.engine
        IN /\ 0 <= p.overlap
           /\ p.overlap < p.chunk_size
           /\ p.chunk_size >= 50
           /\ e.per > 0
           /\ 0 <= e.overlap
           /\ e.overlap * e.per < e.chunk_size
           /\ e.chunk_size >= 50 * e.per

\* two documents that are nothing but the OCR header: the average length the
\* engine's splitter works with is 0
C23_Witness ==
    /\ last.op = "splitter"
    /\ Len(last.args[1]) = 2
    /\ \A d \in Range(last.args[1]) : d.ocr = "first" /\ d.chars = 0
    /\ last.result.engine.chunk_size = 50 * last.result.engine.per
    /\ last.result.processor.chunk_size = ShortChunkSize

\* C25: a create_knowledge_base or add_documents that fails in the embedding
\* of its batch writes nothing to the storage, leaves file_names, raw_texts,
\* the Ready flag and the index as they were, and a save that follows it
\* writes no chunk that was not in the index or on disk before the call.
C25_NoPartialBatch ==
    (last.op \in {"create", "add"} /\ last.raised = "EmbeddingError") =>
        /\ disk_index = pre.disk_index
        /\ disk_meta = pre.disk_meta
        /\ is_initialized = pre.is_initialized
        /\ file_names = pre.file_names
        /\ raw_texts = pre.raw_texts
        /\ vector_store = pre.vector_store
        /\ Range(SaveKnowledgeBase(Cur, "none").st.disk_index.docs)
               \subseteq Range(pre.vector_store.docs) \cup Range(pre.disk_index.docs)

\* an add_documents of two files to a saved knowledge base whose embedding
\* call fails
C25_Witness ==
    /\ last.op = "add"
    /\ last.raised = "EmbeddingError"
    /\ pre.is_initialized
    /\ pre.disk_meta.state = "ok"
    /\ Len(ProcessUploadedFiles(last.files).docs) = 2

\* C28: whenever create_knowledge_base or add_documents raises, file_names,
\* raw_texts, the Ready flag and the set of chunks in the index are what they
\* were before the call.
C28_StateUnchangedOnError ==
    (last.op \in {"create", "add"} /\ last.raised # "none") =>
        /\ file_names = pre.file_names
        /\ raw_texts = pre.raw_texts
        /\ is_initialized = pre.is_initialized
        /\ Range(vector_store.docs) = Range(pre.vector_store.docs)

\* the calls of AgentEngine that change the knowledge base
EngineOps == {"create", "add", "delete", "load", "clear"}

\* C27: after create_and_save, add_documents, delete_document, load or
\* reset_storage of the AgentEngine, returned or raised, the engine's
\* file_names and raw_texts are those of the KnowledgeBaseManager and its
\* vectorstore is the manager's vector store.
C27_MirrorConsistency ==
    last.op \in EngineOps =>
        /\ engine.file_names = file_names
        /\ engine.raw_texts = raw_texts
        /\ engine.vectorstore = vector_store

\* C29: when refresh_components has returned True, the agent executor is
\* ready, its file_list is the file_names of the knowledge base, and the
\* retrieval chain is ready if the knowledge base is initialized.
C29_RefreshComponents ==
    last.refreshed = "true" =>
        /\ AgentIsReady(orchestration)
        /\ orchestration.file_list = file_names
        /\ is_initialized => RagIsReady(orchestration, Cur)

\* the document tool gives an error value for the file and calls no model
Refuses(tool, name) ==
    \A svc \in Services :
        DocumentTool(tool, engine, name, svc) = ToolReply("error", FALSE, FALSE)

\* C30: summarize_document and extract_technical_specifications call the
\* language model for a file name exactly when the name is a key of the
\* engine's raw_texts at the time of the call, and otherwise return an error
\* value without a model call; right after a delete_document that returned
\* they refuse the deleted name, and right after reset_storage every name.
C30_DocumentTools ==
    /\ last.op \in DocumentTools =>
           /\ last.ran = "llm" <=> last.name \in DOMAIN engine.raw_texts
           /\ last.name \notin DOMAIN engine.raw_texts =>
                  /\ last.reply = "error"
                  /\ last.raised = "none"
    /\ (last.op = "delete" /\ last.raised = "none" /\ last.retBool) =>
           \A tool \in DocumentTools : Refuses(tool, last.name)
    /\ last.op = "clear" =>
           \A tool \in DocumentTools, name \in Names : Refuses(tool, name)

\* a tool asked, after a reset that followed a create, for a file
C30_Witness ==
    /\ last.op \in DocumentTools
    /\ cleared
    /\ orchestration.is_initialized
    /\ ~is_initialized
    /\ last.reply = "error"
    /\ last.ran = "none"
====
